---------------------------- MODULE Spec2Model ----------------------------
(***************************************************************************)
(* The estimation / consensus engine of agile-poker:                       *)
(*   app/schemas/estimate.py            EstimateCreate (input validation)  *)
(*   app/services/estimation_service.py create_estimate, _check_consensus  *)
(*   app/services/session_service.py    session membership                 *)
(*   app/services/issue_service.py      create_issue                       *)
(* The relational store is modelled as three tables (sessions, issues,     *)
(* estimates) and the ids of the users.  Spec runs every request handler   *)
(* as one atomic step;                                                     *)
(* SpecConc runs create_estimate statement by statement for several        *)
(* requests at once; SpecScore exercises the scoring arithmetic alone and   *)
(* SpecValidate the validation of a request body alone.  SpecUpsert is     *)
(* create_estimate with the timestamps of the estimate rows and a clock,   *)
(* SpecSummary is get_estimate_summary on the tables a session can have,   *)
(* SpecRead the same among estimate submissions.  SpecLifecycle adds the   *)
(* deletion of sessions, issues and users (app/routes/sessions.py,         *)
(* scripts/create_admin.py), SpecQuorum has two issues in one session,     *)
(* SpecUnanimous the votes of the whole deck, SpecOwner the estimator      *)
(* routes with the user who calls them, and SpecWs the registry of web     *)
(* sockets (app/websockets/session_ws.py).                                 *)
(***************************************************************************)
EXTENDS Integers, Sequences, FiniteSets, Bags, TLC

\* ------------------------------------------------------------- bounds
NumUsers == 3
NumSessions == 1
NumIssues == 1
MaxPoints == 4
MaxJokerPoints == 1
\* SpecConc: concurrent requests, the users that send them, their cards.
NumRequests == 2
NumConcUsers == 2
MaxConcPoints == 2
\* SpecScore: length and range of the list `points`.
MaxVoters == 3
MaxScorePoints == 17
\* SpecValidate: range of story_points in a request body.
MaxBodyPoints == 17
\* SpecUpsert
NumUpsertUsers == 2
MaxClock == 3
\* SpecQuorum: the issues of the session.
NumQuorumIssues == 2
\* SpecWs: the sockets clients open.
NumSockets == 3

Users == 1..NumUsers
SessionIds == 1..NumSessions
IssueIds == 1..NumIssues
Requests == 1..NumRequests
ConcUsers == 1..NumConcUsers
UpsertUsers == 1..NumUpsertUsers
QuorumIssues == 1..NumQuorumIssues
Sockets == 1..NumSockets

\* The session ids web sockets name: those of sessions, and one of no session.
RequestedSessions == 1..(NumSessions + 1)

\* The issue ids requests name: those of issues, and one of no issue.
RequestedIssues == 1..(NumIssues + 1)

\* None of a nullable Integer column (Issue.story_points).
NULL == -1

\* The request bodies tried: numeric cards 0..MaxPoints, joker cards with
\* story_points 0..MaxJokerPoints.
VoteInputs ==
    {<<p, FALSE>> : p \in 0..MaxPoints} \cup {<<p, TRUE>> : p \in 0..MaxJokerPoints}

VARIABLES
    sessions,    \* table sessions: id -> [participants, estimators]
    issues,      \* table issues: id -> [session_id, story_points, story_points_before, is_estimated]
    estimates,   \* table estimates: bag of rows [issue_id, user_id, story_points, is_joker]
    req,         \* SpecConc: the requests in flight, one record per worker
    points,      \* SpecScore: the list `points` of _check_consensus
    score,       \* SpecScore: what _check_consensus computed from it
    body,        \* SpecValidate: a request body
    verdict,     \* SpecValidate: what EstimateCreate made of it
    now,         \* SpecUpsert: the clock datetime.utcnow reads
    stamps,      \* SpecUpsert: <<issue_id, user_id>> -> [created_at, updated_at] of the row
    response,    \* SpecUpsert, SpecSummary: the response last sent, and when
    users,       \* table users: the ids of the users that exist
    active_connections,  \* SpecWs: manager.active_connections, session id -> list of sockets
    ws,          \* SpecWs: where websocket_endpoint is for each socket
    sent         \* SpecWs: the sockets the last broadcast sent to

vars == <<sessions, issues, estimates, req, points, score, body, verdict, now, stamps,
          response, users, active_connections, ws, sent>>
db == <<sessions, issues, estimates>>

\* ------------------------------------------------------------ helpers
AbsDiff(a, b) == IF a >= b THEN a - b ELSE b - a

RECURSIVE SeqSum(_)
SeqSum(s) == IF s = <<>> THEN 0 ELSE Head(s) + SeqSum(Tail(s))

SeqMax(s) == CHOOSE x \in {s[k] : k \in 1..Len(s)} : \A k \in 1..Len(s) : s[k] <= x
SeqMin(s) == CHOOSE x \in {s[k] : k \in 1..Len(s)} : \A k \in 1..Len(s) : x <= s[k]

\* The rows S of a bag, with their multiplicities.
BagRows(B, S) == [r \in S |-> B[r]]

\* The rows of a bag as a list (the order a query happens to return them in).
RECURSIVE BagToSeq(_)
BagToSeq(B) ==
    IF BagToSet(B) = {} THEN <<>>
    ELSE LET r == CHOOSE x \in BagToSet(B) : TRUE
         IN <<r>> \o BagToSeq(B (-) SetToBag({r}))

\* ------------------------------------------- EstimateCreate validation
\* Field declaration order of EstimateCreate; pydantic validates the fields
\* in this order and hands a field validator only the fields validated
\* before it (info.data).
EstimateCreateFields == <<"session_id", "issue_id", "story_points", "user_id", "is_joker">>

FieldIndex(f) ==
    CHOOSE i \in 1..Len(EstimateCreateFields) : EstimateCreateFields[i] = f

\* info.data at the time the validator of field f runs.
InfoData(f, raw) ==
    [g \in {EstimateCreateFields[i] : i \in 1..(FieldIndex(f) - 1)} |-> raw[g]]

\* validate_story_points(cls, v, info): TRUE iff no ValueError is raised.
validate_story_points(v, data) ==
    LET is_joker == IF "is_joker" \in DOMAIN data THEN data["is_joker"] ELSE FALSE
    IN  IF is_joker THEN v = 0 ELSE v >= 1

\* EstimateCreate(**raw) succeeds: Field(..., ge=0), then the field validator.
EstimateCreateValid(raw) ==
    /\ raw["story_points"] >= 0
    /\ validate_story_points(raw["story_points"], InfoData("story_points", raw))

\* ------------------------------------------------- _check_consensus
\* Mutant: the early return forgets issue.is_estimated.
already_estimated_unlatched(db_issues, issue_id) ==
    issue_id \notin DOMAIN db_issues

\* `if not issue or issue.is_estimated: return False`
already_estimated(db_issues, issue_id) ==
    \/ issue_id \notin DOMAIN db_issues
    \/ db_issues[issue_id].is_estimated

\* Mutant: the participants are looked at first, the estimators as fallback.
estimators_count_participants_first(session) ==
    IF session.participants # {} /\ Cardinality(session.participants) > 0
    THEN Cardinality(session.participants)
    ELSE IF session.estimators # {} THEN Cardinality(session.estimators) ELSE 0

\* Mutant: estimators and participants are counted together.
estimators_count_joined(session) ==
    Cardinality(session.estimators \cup session.participants)

\* estimators if any are assigned, else the participants, else 0.
estimators_count(session) ==
    IF session.estimators # {} /\ Cardinality(session.estimators) > 0
    THEN Cardinality(session.estimators)
    ELSE IF session.participants # {} THEN Cardinality(session.participants) ELSE 0

\* db.query(Estimate).filter(Estimate.issue_id == issue_id).all()
issue_estimates(db_estimates, issue_id) ==
    BagRows(db_estimates, {e \in BagToSet(db_estimates) : e.issue_id = issue_id})

\* Mutant: the number of estimates is not compared with the quorum.
quorum_met_unchecked(estimate_count, n) == estimate_count >= 1

\* `estimate_count >= estimators_count`, and negated at the early return
\* `if estimate_count < estimators_count`.
quorum_met(estimate_count, n) == estimate_count >= n

\* Mutant: joker estimates are not filtered out.
valid_estimates_with_jokers(ests) == ests

\* valid_estimates = [e for e in estimates if not e.is_joker]
valid_estimates(ests) ==
    BagRows(ests, {e \in BagToSet(ests) : ~e.is_joker})

\* points = [e.story_points for e in valid_estimates]
points_of(valid) ==
    LET rows == BagToSeq(valid)
    IN  [k \in 1..Len(rows) |-> rows[k].story_points]

\* variance = max(points) - min(points)
variance(pts) == SeqMax(pts) - SeqMin(pts)

\* Mutant: the threshold is taken strictly.
within_threshold_strict(v) == v < 2

\* `variance <= 2`
within_threshold(v) == v <= 2

\* Mutant: the scores are those of the Fibonacci deck.
valid_scores_fibonacci == <<1, 2, 3, 5, 8, 13>>

\* valid_scores = [1, 2, 4, 8, 16]
valid_scores == <<1, 2, 4, 8, 16>>

\* Mutant: a later score with an equal key replaces the earlier one.
RECURSIVE min_by_distance_last(_, _, _, _)
min_by_distance_last(scores, total, n, best) ==
    IF scores = <<>> THEN best
    ELSE LET x == Head(scores)
         IN min_by_distance_last(Tail(scores), total, n,
                IF AbsDiff(x * n, total) <= AbsDiff(best * n, total) THEN x ELSE best)

\* min(valid_scores, key=lambda x: abs(x - avg)) with avg = total / n: Python's
\* min keeps the first element whose key is strictly smaller than all before
\* it.  |x - total/n| is compared as |x*n - total| (n > 0), which orders the
\* keys exactly as the float arithmetic does for these magnitudes.
RECURSIVE min_by_distance(_, _, _, _)
min_by_distance(scores, total, n, best) ==
    IF scores = <<>> THEN best
    ELSE LET x == Head(scores)
         IN min_by_distance(Tail(scores), total, n,
                IF AbsDiff(x * n, total) < AbsDiff(best * n, total) THEN x ELSE best)

\* Mutant: the average itself, rounded down, is the score.
final_score_average(pts) == SeqSum(pts) \div Len(pts)

\* avg = sum(points) / len(points); final_score = min(valid_scores, key=...)
final_score(pts) ==
    min_by_distance(Tail(valid_scores), SeqSum(pts), Len(pts), Head(valid_scores))

\* Lines 164-189 on the list of all estimates of the issue: whether consensus
\* is reached and the score to apply.
evaluate_estimates(ests, n) ==
    LET no == [reached |-> FALSE, final_score |-> NULL]
        estimate_count == BagCardinality(ests)
        valid == valid_estimates(ests)
    IN
    IF ~quorum_met(estimate_count, n) THEN no
    ELSE IF BagToSet(valid) = {} THEN no
    ELSE LET pts == points_of(valid)
         IN IF within_threshold(variance(pts)) /\ quorum_met(estimate_count, n)
            THEN [reached |-> TRUE, final_score |-> final_score(pts)]
            ELSE no

\* Mutant: the evaluation is not run.
check_consensus_skipped(db_sessions, db_issues, db_estimates, issue_id) ==
    [reached |-> FALSE, final_score |-> NULL]

\* _check_consensus up to the decision: the reads of issue, session and
\* estimates and the verdict computed from them.
check_consensus(db_sessions, db_issues, db_estimates, issue_id) ==
    LET no == [reached |-> FALSE, final_score |-> NULL]
    IN
    IF already_estimated(db_issues, issue_id) THEN no
    ELSE IF db_issues[issue_id].session_id \notin DOMAIN db_sessions THEN no
    ELSE LET n == estimators_count(db_sessions[db_issues[issue_id].session_id])
         IN IF n = 0 THEN no
            ELSE evaluate_estimates(issue_estimates(db_estimates, issue_id), n)

\* Mutant: the score is stored and the flag is left as it was.
apply_estimate_points_only(db_issues, issue_id, final) ==
    [db_issues EXCEPT ![issue_id].story_points = final]

\* issue.story_points = final_score; issue.is_estimated = True; db.commit()
apply_estimate(db_issues, issue_id, final) ==
    [db_issues EXCEPT ![issue_id].story_points = final,
                      ![issue_id].is_estimated = TRUE]

\* ---------------------------------------------------- create_estimate
EstimateRow(issue_id, user_id, story_points, is_joker) ==
    [issue_id |-> issue_id, user_id |-> user_id,
     story_points |-> story_points, is_joker |-> is_joker]

\* db.query(Estimate).filter(issue_id == ..., user_id == ...): the rows found.
existing_rows(db_estimates, issue_id, user_id) ==
    {e \in BagToSet(db_estimates) : e.issue_id = issue_id /\ e.user_id = user_id}

\* UPDATE of the row `existing` (addressed by its primary key).
update_estimate(db_estimates, issue_id, user_id, story_points, is_joker) ==
    LET existing == CHOOSE e \in existing_rows(db_estimates, issue_id, user_id) : TRUE
    IN  (db_estimates (-) SetToBag({existing}))
            (+) SetToBag({EstimateRow(issue_id, user_id, story_points, is_joker)})

\* INSERT of Estimate(**estimate_data.dict(exclude={'session_id'})).
insert_estimate(db_estimates, issue_id, user_id, story_points, is_joker) ==
    db_estimates (+) SetToBag({EstimateRow(issue_id, user_id, story_points, is_joker)})

\* Mutant: the table has no unique constraint.
uq_issue_user_estimate_absent(db_estimates, issue_id, user_id) == TRUE

\* UniqueConstraint("issue_id", "user_id"): the database admits the insert.
uq_issue_user_estimate(db_estimates, issue_id, user_id) ==
    existing_rows(db_estimates, issue_id, user_id) = {}

\* ForeignKey("issues.id") of estimates.issue_id.
fk_issue(db_issues, issue_id) == issue_id \in DOMAIN db_issues

\* Lines 17-33: look `existing` up, update it or insert, commit.
upsert_estimate(db_estimates, issue_id, user_id, story_points, is_joker) ==
    IF existing_rows(db_estimates, issue_id, user_id) # {}
    THEN update_estimate(db_estimates, issue_id, user_id, story_points, is_joker)
    ELSE insert_estimate(db_estimates, issue_id, user_id, story_points, is_joker)

RequestBody(session_id, issue_id, user_id, story_points, is_joker) ==
    [session_id |-> session_id, issue_id |-> issue_id,
     story_points |-> story_points, user_id |-> user_id, is_joker |-> is_joker]

\* POST /api/v1/estimates/ served start to end.  A body EstimateCreate
\* rejects never reaches the handler, and an issue_id without issue fails the
\* commit: both leave the tables as they are.
CreateEstimate(session_id, issue_id, user_id, story_points, is_joker) ==
    /\ EstimateCreateValid(RequestBody(session_id, issue_id, user_id, story_points, is_joker))
    /\ fk_issue(issues, issue_id)
    /\ LET written == upsert_estimate(estimates, issue_id, user_id, story_points, is_joker)
           checked == check_consensus(sessions, issues, written, issue_id)
       IN  /\ estimates' = written
           /\ issues' = IF checked.reached
                        THEN apply_estimate(issues, issue_id, checked.final_score)
                        ELSE issues
    /\ UNCHANGED <<sessions, req, points, users, active_connections, ws, sent,
                   now, stamps, response, score, body, verdict>>

\* ------------------------------------------------ sessions and issues
\* SessionService.create_session
CreateSession ==
    /\ \E id \in SessionIds :
        /\ id \notin DOMAIN sessions
        /\ \A other \in DOMAIN sessions : other < id
        /\ sessions' = [s \in DOMAIN sessions \cup {id} |->
                          IF s = id
                          THEN [participants |-> {}, estimators |-> {}]
                          ELSE sessions[s]]
    /\ UNCHANGED <<issues, estimates, req, points, users, active_connections, ws, sent,
                   now, stamps, response, score, body, verdict>>

\* IssueService.create_issue
CreateIssue(session_id) ==
    /\ session_id \in DOMAIN sessions
    /\ \E id \in IssueIds :
        /\ id \notin DOMAIN issues
        /\ \A other \in DOMAIN issues : other < id
        /\ issues' = [i \in DOMAIN issues \cup {id} |->
                        IF i = id
                        THEN [session_id |-> session_id, story_points |-> NULL,
                              story_points_before |-> NULL, is_estimated |-> FALSE]
                        ELSE issues[i]]
    /\ UNCHANGED <<sessions, estimates, req, points, users, active_connections, ws, sent,
                   now, stamps, response, score, body, verdict>>

\* SessionService.add_user_to_session
add_user_to_session(db_sessions, session_id, user_id) ==
    IF session_id \in DOMAIN db_sessions
       /\ user_id \notin db_sessions[session_id].participants
    THEN [db_sessions EXCEPT ![session_id].participants = @ \cup {user_id}]
    ELSE db_sessions

\* SessionService.remove_user_from_session
remove_user_from_session(db_sessions, session_id, user_id) ==
    IF session_id \in DOMAIN db_sessions
       /\ user_id \in db_sessions[session_id].participants
    THEN [db_sessions EXCEPT ![session_id].participants = @ \ {user_id}]
    ELSE db_sessions

\* Mutant: a new estimator is made a participant as well.
add_estimator_as_participant(db_sessions, session_id, user_id) ==
    IF session_id \in DOMAIN db_sessions
       /\ user_id \notin db_sessions[session_id].estimators
    THEN [db_sessions EXCEPT ![session_id].estimators = @ \cup {user_id},
                             ![session_id].participants = @ \cup {user_id}]
    ELSE db_sessions

\* SessionService.add_estimator_to_session
add_estimator_to_session(db_sessions, session_id, user_id) ==
    IF session_id \in DOMAIN db_sessions
       /\ user_id \notin db_sessions[session_id].estimators
    THEN [db_sessions EXCEPT ![session_id].estimators = @ \cup {user_id}]
    ELSE db_sessions

\* SessionService.remove_estimator_from_session
remove_estimator_from_session(db_sessions, session_id, user_id) ==
    IF session_id \in DOMAIN db_sessions
       /\ user_id \in db_sessions[session_id].estimators
    THEN [db_sessions EXCEPT ![session_id].estimators = @ \ {user_id}]
    ELSE db_sessions

AddUser(session_id, user_id) ==
    /\ sessions' = add_user_to_session(sessions, session_id, user_id)
    /\ UNCHANGED <<issues, estimates, req, points, users, active_connections, ws, sent,
                   now, stamps, response, score, body, verdict>>

RemoveUser(session_id, user_id) ==
    /\ sessions' = remove_user_from_session(sessions, session_id, user_id)
    /\ UNCHANGED <<issues, estimates, req, points, users, active_connections, ws, sent,
                   now, stamps, response, score, body, verdict>>

AddEstimator(session_id, user_id) ==
    /\ sessions' = add_estimator_to_session(sessions, session_id, user_id)
    /\ UNCHANGED <<issues, estimates, req, points, users, active_connections, ws, sent,
                   now, stamps, response, score, body, verdict>>

\* Mutant: removing an estimator evaluates the open issues of the session.
RemoveEstimatorEvaluating(session_id, user_id) ==
    /\ sessions' = remove_estimator_from_session(sessions, session_id, user_id)
    /\ issues' = [i \in DOMAIN issues |->
                    LET checked == check_consensus(sessions', issues, estimates, i)
                    IN  IF issues[i].session_id = session_id /\ checked.reached
                        THEN apply_estimate(issues, i, checked.final_score)[i]
                        ELSE issues[i]]
    /\ UNCHANGED <<estimates, req, points, users, active_connections, ws, sent,
                   now, stamps, response, score, body, verdict>>

RemoveEstimator(session_id, user_id) ==
    /\ sessions' = remove_estimator_from_session(sessions, session_id, user_id)
    /\ UNCHANGED <<issues, estimates, req, points, users, active_connections, ws, sent,
                   now, stamps, response, score, body, verdict>>

\* ------------------------------------------------------ specification
IdleRequest ==
    [pc |-> "idle", issue_id |-> NULL, user_id |-> NULL, story_points |-> NULL,
     is_joker |-> FALSE, existing |-> FALSE, final_score |-> NULL]

NoScore == [done |-> FALSE, variance |-> NULL, consensus |-> FALSE, final_score |-> NULL]

NoBody == RequestBody(NULL, NULL, NULL, NULL, FALSE)

\* What a specification leaves alone of the other specifications' variables.
NoRequests == req = [r \in Requests |-> IdleRequest]
NoScoring == points = <<>> /\ score = NoScore
NoValidation == body = NoBody /\ verdict = "none"
NoClock == now = 0 /\ stamps = <<>>
NoResponse == response = [status_code |-> 0, at |-> 0]
AllUsers == users = Users
IdleSocket == [pc |-> "idle", session_id |-> NULL, raised |-> FALSE]
NoSockets == active_connections = <<>> /\ ws = [w \in Sockets |-> IdleSocket] /\ sent = {}

Init ==
    /\ sessions = <<>>
    /\ issues = <<>>
    /\ estimates = EmptyBag
    /\ NoRequests
    /\ NoScoring
    /\ NoValidation
    /\ NoClock
    /\ NoResponse
    /\ AllUsers
    /\ NoSockets

Next ==
    \/ CreateSession
    \/ \E s \in SessionIds : CreateIssue(s)
    \/ \E s \in SessionIds, u \in Users : AddUser(s, u)
    \/ \E s \in SessionIds, u \in Users : RemoveUser(s, u)
    \/ \E s \in SessionIds, u \in Users : AddEstimator(s, u)
    \/ \E s \in SessionIds, u \in Users : RemoveEstimator(s, u)
    \/ \E s \in SessionIds, i \in IssueIds, u \in Users, in \in VoteInputs :
          CreateEstimate(s, i, u, in[1], in[2])

Spec == Init /\ [][Next]_vars

\* ------------------------------ create_estimate, statement by statement
\* Each worker serves one request at a time with a database session of its
\* own; the statements of different workers interleave, each statement seeing
\* what is committed (read committed).

\* Lines 17-20: the body is accepted and `existing` is queried.
Begin(r, session_id, issue_id, user_id, story_points, is_joker) ==
    /\ req[r].pc = "idle"
    /\ EstimateCreateValid(RequestBody(session_id, issue_id, user_id, story_points, is_joker))
    /\ req' = [req EXCEPT ![r] =
                 [pc |-> "write", issue_id |-> issue_id, user_id |-> user_id,
                  story_points |-> story_points, is_joker |-> is_joker,
                  existing |-> existing_rows(estimates, issue_id, user_id) # {},
                  final_score |-> NULL]]
    /\ UNCHANGED <<sessions, issues, estimates, points, users, active_connections, ws, sent,
                   now, stamps, response, score, body, verdict>>

\* Lines 22-33: the update or the insert, and the commit; an insert the
\* constraints refuse raises IntegrityError and ends the request.
WriteEstimate(r) ==
    /\ req[r].pc = "write"
    /\ \/ /\ req[r].existing
          /\ estimates' = update_estimate(estimates, req[r].issue_id, req[r].user_id,
                                          req[r].story_points, req[r].is_joker)
          /\ req' = [req EXCEPT ![r].pc = "check"]
       \/ /\ ~req[r].existing
          /\ uq_issue_user_estimate(estimates, req[r].issue_id, req[r].user_id)
          /\ fk_issue(issues, req[r].issue_id)
          /\ estimates' = insert_estimate(estimates, req[r].issue_id, req[r].user_id,
                                          req[r].story_points, req[r].is_joker)
          /\ req' = [req EXCEPT ![r].pc = "check"]
       \/ /\ ~req[r].existing
          /\ ~(/\ uq_issue_user_estimate(estimates, req[r].issue_id, req[r].user_id)
               /\ fk_issue(issues, req[r].issue_id))
          /\ req' = [req EXCEPT ![r].pc = "failed"]
          /\ UNCHANGED estimates
    /\ UNCHANGED <<sessions, issues, points, users, active_connections, ws, sent,
                   now, stamps, response, score, body, verdict>>

\* _check_consensus, lines 136-179: issue, session and estimates are read and
\* the verdict is computed.
Evaluate(r) ==
    /\ req[r].pc = "check"
    /\ LET checked == check_consensus(sessions, issues, estimates, req[r].issue_id)
       IN  req' = [req EXCEPT ![r].pc = IF checked.reached THEN "apply" ELSE "done",
                              ![r].final_score = checked.final_score]
    /\ UNCHANGED <<sessions, issues, estimates, points, users, active_connections, ws, sent,
                   now, stamps, response, score, body, verdict>>

\* _check_consensus, lines 182-185: the issue is written and committed.
ApplyEstimate(r) ==
    /\ req[r].pc = "apply"
    /\ issues' = apply_estimate(issues, req[r].issue_id, req[r].final_score)
    /\ req' = [req EXCEPT ![r].pc = "done"]
    /\ UNCHANGED <<sessions, estimates, points, users, active_connections, ws, sent,
                   now, stamps, response, score, body, verdict>>

\* A statement of _check_consensus raises (the database connection is lost,
\* the statement times out): the exception leaves create_estimate.  What line
\* 33 committed stays committed; an issue write not yet committed is lost.
RaiseError(r) ==
    /\ req[r].pc \in {"check", "apply"}
    /\ req' = [req EXCEPT ![r].pc = "error"]
    /\ UNCHANGED <<sessions, issues, estimates, points, users, active_connections, ws, sent,
                   now, stamps, response, score, body, verdict>>

\* The response is sent (the estimate, or 500 from the handler of unhandled
\* exceptions); the worker takes the next request.
Return(r) ==
    /\ req[r].pc \in {"done", "failed", "error"}
    /\ req' = [req EXCEPT ![r] = IdleRequest]
    /\ UNCHANGED <<sessions, issues, estimates, points, users, active_connections, ws, sent,
                   now, stamps, response, score, body, verdict>>

\* A session with any members and one open issue, no estimate yet.
InitConc ==
    /\ \E P \in SUBSET ConcUsers, E \in SUBSET ConcUsers :
          sessions = [s \in {1} |-> [participants |-> P, estimators |-> E]]
    /\ issues = [i \in {1} |-> [session_id |-> 1, story_points |-> NULL,
                                story_points_before |-> NULL, is_estimated |-> FALSE]]
    /\ estimates = EmptyBag
    /\ NoRequests
    /\ NoScoring
    /\ NoValidation
    /\ NoClock
    /\ NoResponse
    /\ AllUsers
    /\ NoSockets

NextConc ==
    \/ \E r \in Requests, s \in SessionIds, i \in RequestedIssues,
          u \in ConcUsers, p \in 0..MaxConcPoints :
          Begin(r, s, i, u, p, FALSE)
    \/ \E r \in Requests : WriteEstimate(r)
    \/ \E r \in Requests : Evaluate(r)
    \/ \E r \in Requests : ApplyEstimate(r)
    \/ \E r \in Requests : RaiseError(r)
    \/ \E r \in Requests : Return(r)

SpecConc == InitConc /\ [][NextConc]_vars

\* ------------------------------------------------ the scoring alone
\* _check_consensus, lines 171-179, on a list `points`.
ScorePoints ==
    /\ ~score.done
    /\ score' = [done |-> TRUE, variance |-> variance(points),
                 consensus |-> within_threshold(variance(points)),
                 final_score |-> IF within_threshold(variance(points))
                                 THEN final_score(points) ELSE NULL]
    /\ UNCHANGED <<sessions, issues, estimates, req, points, users, active_connections, ws, sent,
                   now, stamps, response, body, verdict>>

InitScore ==
    /\ sessions = <<>>
    /\ issues = <<>>
    /\ estimates = EmptyBag
    /\ NoRequests
    /\ points \in UNION {[1..n -> 1..MaxScorePoints] : n \in 1..MaxVoters}
    /\ score = NoScore
    /\ NoValidation
    /\ NoClock
    /\ NoResponse
    /\ AllUsers
    /\ NoSockets

SpecScore == InitScore /\ [][ScorePoints]_vars

\* ------------------------------------------- the validation alone
\* EstimateCreate(**body), as FastAPI runs it before the handler.
ValidateBody ==
    /\ verdict = "none"
    /\ verdict' = IF EstimateCreateValid(body) THEN "accepted" ELSE "rejected"
    /\ UNCHANGED <<sessions, issues, estimates, req, points, users, active_connections, ws, sent,
                   now, stamps, response, score, body>>

InitValidate ==
    /\ sessions = <<>>
    /\ issues = <<>>
    /\ estimates = EmptyBag
    /\ NoRequests
    /\ NoScoring
    /\ body \in {RequestBody(s, i, u, p, j) :
                    s \in SessionIds, i \in IssueIds, u \in Users,
                    p \in (-1)..MaxBodyPoints, j \in BOOLEAN}
    /\ verdict = "none"
    /\ NoClock
    /\ NoResponse
    /\ AllUsers
    /\ NoSockets

SpecValidate == InitValidate /\ [][ValidateBody]_vars

\* -------------------------------------------- the row's timestamps
\* Estimate.created_at = Column(DateTime, default=datetime.utcnow) and
\* Estimate.updated_at = Column(DateTime, default=datetime.utcnow,
\* onupdate=datetime.utcnow): each default is a call of its own, made when the
\* INSERT is built, and the clock may move between the two.
insert_stamps(st, pair, created_at, updated_at) ==
    [q \in DOMAIN st \cup {pair} |->
        IF q = pair THEN [created_at |-> created_at, updated_at |-> updated_at]
        ELSE st[q]]

\* onupdate=datetime.utcnow, called when an UPDATE of the row is built.
onupdate_stamp(st, pair, t) == [st EXCEPT ![pair].updated_at = t]

\* The unit of work emits an UPDATE only for a row with an attribute whose
\* value differs from the loaded one; lines 24-26 assigning the values the
\* row already has leave nothing to flush.
net_change(db_estimates, issue_id, user_id, story_points, is_joker) ==
    EstimateRow(issue_id, user_id, story_points, is_joker) \notin BagToSet(db_estimates)

\* return final_estimate, serialized by response_model=EstimateResponse: the
\* row of the pair as the database has it after the commit, sent at time t.
EstimateResponse(db_estimates, st, issue_id, user_id, t) ==
    LET row == CHOOSE e \in existing_rows(db_estimates, issue_id, user_id) : TRUE
    IN  [status_code |-> 200, at |-> t,
         issue_id |-> row.issue_id, user_id |-> row.user_id,
         story_points |-> row.story_points, is_joker |-> row.is_joker,
         created_at |-> st[<<issue_id, user_id>>].created_at,
         updated_at |-> st[<<issue_id, user_id>>].updated_at]

\* datetime.utcnow() moves on between two requests.
Tick ==
    /\ now < MaxClock
    /\ now' = now + 1
    /\ UNCHANGED <<sessions, issues, estimates, req, points, users, active_connections, ws, sent,
                   score, body, verdict,
                   stamps, response>>

\* POST /api/v1/estimates/ served start to end, with the timestamps of the row.
CreateEstimateStamped(session_id, issue_id, user_id, story_points, is_joker) ==
    /\ EstimateCreateValid(RequestBody(session_id, issue_id, user_id, story_points, is_joker))
    /\ fk_issue(issues, issue_id)
    /\ LET written == upsert_estimate(estimates, issue_id, user_id, story_points, is_joker)
           checked == check_consensus(sessions, issues, written, issue_id)
       IN  /\ estimates' = written
           /\ issues' = IF checked.reached
                        THEN apply_estimate(issues, issue_id, checked.final_score)
                        ELSE issues
    /\ IF existing_rows(estimates, issue_id, user_id) = {}
       THEN \E t \in now..(IF now < MaxClock THEN now + 1 ELSE now) :
               /\ stamps' = insert_stamps(stamps, <<issue_id, user_id>>, now, t)
               /\ now' = t
       ELSE IF net_change(estimates, issue_id, user_id, story_points, is_joker)
       THEN /\ stamps' = onupdate_stamp(stamps, <<issue_id, user_id>>, now)
            /\ UNCHANGED now
       ELSE UNCHANGED <<now, stamps>>
    /\ response' = EstimateResponse(estimates', stamps', issue_id, user_id, now')
    /\ UNCHANGED <<sessions, req, points, users, active_connections, ws, sent,
                   score, body, verdict>>

\* A session of UpsertUsers with one open issue and no estimate, at time 0.
InitUpsert ==
    /\ sessions = [s \in {1} |-> [participants |-> UpsertUsers, estimators |-> {}]]
    /\ issues = [i \in {1} |-> [session_id |-> 1, story_points |-> NULL,
                                story_points_before |-> NULL, is_estimated |-> FALSE]]
    /\ estimates = EmptyBag
    /\ NoRequests
    /\ NoScoring
    /\ NoValidation
    /\ NoClock
    /\ NoResponse
    /\ AllUsers
    /\ NoSockets

NextUpsert ==
    \/ Tick
    \/ \E s \in SessionIds, i \in IssueIds, u \in UpsertUsers, in \in VoteInputs :
          CreateEstimateStamped(s, i, u, in[1], in[2])

SpecUpsert == InitUpsert /\ [][NextUpsert]_vars

\* ------------------------------------------------------ the summary
\* What get_estimate_summary returns for `return None`.
None == [none |-> TRUE]

\* Mutant: an issue with joker estimates only counts as one without estimates.
no_estimates_but_jokers(ests) == \A e \in BagToSet(ests) : e.is_joker

\* `if not estimates` (line 67)
no_estimates(ests) == ests = EmptyBag

\* joker_estimates = [e for e in estimates if e.is_joker]
joker_estimates(ests) == BagRows(ests, {e \in BagToSet(ests) : e.is_joker})

\* Mutant: the joker estimates are kept among the valid ones.
summary_valid_estimates_all(ests) == ests

\* valid_estimates = [e for e in estimates if not e.is_joker] (line 72)
summary_valid_estimates(ests) == BagRows(ests, {e \in BagToSet(ests) : ~e.is_joker})

\* estimates_dict of lines 95-100; that of line 76 where every row is a joker.
estimates_dict(ests) ==
    [u \in {e.user_id : e \in BagToSet(ests)} |->
        LET e == CHOOSE x \in BagToSet(ests) : x.user_id = u
        IN  [points |-> IF e.is_joker THEN 0 ELSE e.story_points, is_joker |-> e.is_joker]]

\* Mutant: the summary of joker estimates is computed from their points.
all_joker_summary_scored(issue_id, ests) ==
    LET pts == points_of(ests)
    IN  [issue_id |-> issue_id,
         total_estimates |-> BagCardinality(ests),
         valid_estimates |-> 0,
         avg_points |-> [num |-> SeqSum(pts), den |-> Len(pts)],
         min_points |-> SeqMin(pts),
         max_points |-> SeqMax(pts),
         is_consensus |-> SeqMax(pts) - SeqMin(pts) <= 2,
         estimates |-> estimates_dict(ests),
         joker_count |-> BagCardinality(joker_estimates(ests))]

\* Lines 75-87: the summary when no estimate is valid.  avg_points, a float,
\* is kept as the fraction num/den.
all_joker_summary(issue_id, ests) ==
    [issue_id |-> issue_id,
     total_estimates |-> BagCardinality(ests),
     valid_estimates |-> 0,
     avg_points |-> [num |-> 0, den |-> 1],
     min_points |-> 0,
     max_points |-> 0,
     is_consensus |-> FALSE,
     estimates |-> estimates_dict(ests),
     joker_count |-> BagCardinality(joker_estimates(ests))]

\* EstimationService.get_estimate_summary
get_estimate_summary(db_estimates, issue_id) ==
    LET ests == issue_estimates(db_estimates, issue_id)
        valid == summary_valid_estimates(ests)
        pts == points_of(valid)
    IN  IF no_estimates(ests) THEN None
        ELSE IF valid = EmptyBag THEN all_joker_summary(issue_id, ests)
        ELSE [issue_id |-> issue_id,
              total_estimates |-> BagCardinality(ests),
              valid_estimates |-> BagCardinality(valid),
              avg_points |-> [num |-> SeqSum(pts), den |-> Len(pts)],
              min_points |-> SeqMin(pts),
              max_points |-> SeqMax(pts),
              is_consensus |-> SeqMax(pts) - SeqMin(pts) <= 2,
              estimates |-> estimates_dict(ests),
              joker_count |-> BagCardinality(joker_estimates(ests))]

\* Mutant: a summary with consensus finalizes the open issue it is about.
GetEstimateSummaryFinalizing(issue_id) ==
    /\ response.status_code = 0
    /\ LET summary == get_estimate_summary(estimates, issue_id)
       IN  /\ response' = IF summary = None
                          THEN [status_code |-> 404, at |-> now, issue_id |-> issue_id]
                          ELSE [status_code |-> 200, at |-> now, issue_id |-> issue_id,
                                summary |-> summary]
           /\ issues' = IF /\ summary # None
                           /\ summary.is_consensus
                           /\ issue_id \in DOMAIN issues
                           /\ ~issues[issue_id].is_estimated
                        THEN apply_estimate(issues, issue_id, summary.min_points)
                        ELSE issues
    /\ UNCHANGED <<sessions, estimates, req, points, users, active_connections, ws, sent,
                   score, body, verdict, now, stamps>>

\* GET /api/v1/estimates/summary/{issue_id}
GetEstimateSummary(issue_id) ==
    /\ response.status_code = 0
    /\ LET summary == get_estimate_summary(estimates, issue_id)
       IN  response' = IF summary = None
                       THEN [status_code |-> 404, at |-> now, issue_id |-> issue_id]
                       ELSE [status_code |-> 200, at |-> now, issue_id |-> issue_id,
                             summary |-> summary]
    /\ UNCHANGED <<sessions, issues, estimates, req, points, users, active_connections, ws, sent,
                   score, body, verdict,
                   now, stamps>>

\* What a user can have on the issue: no estimate, or one an accepted body stores.
VoteOptions ==
    {<<NULL, FALSE>>} \cup
    {in \in VoteInputs : EstimateCreateValid(RequestBody(1, 1, 1, in[1], in[2]))}

\* The estimates table in which user u has estimate f[u] on issue 1.
EstimatesOf(f) ==
    SetToBag({EstimateRow(1, u, f[u][1], f[u][2]) : u \in {v \in Users : f[v][1] # NULL}})

\* One session and one issue, open or estimated, with any estimates on it; an
\* estimated issue has an estimate.
InitSummary ==
    /\ \E E \in SUBSET {1} :
          sessions = [s \in {1} |-> [participants |-> Users, estimators |-> E]]
    /\ estimates \in {EstimatesOf(f) : f \in [Users -> VoteOptions]}
    /\ \E sp \in {NULL, 1, 2, 4} :
          /\ sp # NULL => estimates # EmptyBag
          /\ issues = [i \in {1} |-> [session_id |-> 1, story_points |-> sp,
                                      story_points_before |-> NULL,
                                      is_estimated |-> sp # NULL]]
    /\ NoRequests
    /\ NoScoring
    /\ NoValidation
    /\ NoClock
    /\ NoResponse
    /\ AllUsers
    /\ NoSockets

NextSummary == \E i \in RequestedIssues : GetEstimateSummary(i)

SpecSummary == InitSummary /\ [][NextSummary]_vars

\* ------------------------------------------------------ deletions
\* POST /api/v1/sessions: SessionService.create_session with the current
\* user as creator_id.
CreateSessionBy(creator_id) ==
    /\ creator_id \in users
    /\ \E id \in SessionIds :
        /\ id \notin DOMAIN sessions
        /\ \A other \in DOMAIN sessions : other < id
        /\ sessions' = [s \in DOMAIN sessions \cup {id} |->
                          IF s = id
                          THEN [participants |-> {}, estimators |-> {},
                                created_by_id |-> creator_id]
                          ELSE sessions[s]]
    /\ UNCHANGED <<issues, estimates, req, points, score, body, verdict, now, stamps,
                   response, users, active_connections, ws, sent>>

\* The issues of a session (`db.query(Issue).filter(Issue.session_id == ...)`).
session_issues(db_issues, session_id) ==
    {i \in DOMAIN db_issues : db_issues[i].session_id = session_id}

\* Mutant: deleting issues leaves their estimates in the table.
delete_issue_estimates_kept(db_estimates, issue_ids) == db_estimates

\* The estimates left when those of the issues issue_ids are deleted:
\* `db.delete(estimate)` for each estimate of each issue in delete_session,
\* the cascade "all, delete-orphan" of Issue.estimates in db.delete(issue).
delete_issue_estimates(db_estimates, issue_ids) ==
    BagRows(db_estimates, {e \in BagToSet(db_estimates) : e.issue_id \notin issue_ids})

\* The table without the rows of the ids `gone`.
delete_rows(table, gone) == [k \in DOMAIN table \ gone |-> table[k]]

\* DELETE /api/v1/sessions/{session_id}: 404 without the session, 403 for
\* another user than its creator; else associations, estimates, issues and
\* the session are deleted in one transaction.
DeleteSession(session_id, current_user) ==
    /\ session_id \in DOMAIN sessions
    /\ sessions[session_id].created_by_id = current_user
    /\ LET gone == session_issues(issues, session_id)
       IN  /\ estimates' = delete_issue_estimates(estimates, gone)
           /\ issues' = delete_rows(issues, gone)
           /\ sessions' = delete_rows(sessions, {session_id})
    /\ UNCHANGED <<req, points, score, body, verdict, now, stamps, response, users,
                   active_connections, ws, sent>>

\* DELETE /api/v1/sessions/{session_id}/issues/{issue_id}: 404 without the
\* session or without the issue in it, 403 for another user than the creator.
RemoveIssueFromSession(session_id, issue_id, current_user) ==
    /\ session_id \in DOMAIN sessions
    /\ sessions[session_id].created_by_id = current_user
    /\ issue_id \in session_issues(issues, session_id)
    /\ estimates' = delete_issue_estimates(estimates, {issue_id})
    /\ issues' = delete_rows(issues, {issue_id})
    /\ UNCHANGED <<sessions, req, points, score, body, verdict, now, stamps, response,
                   users, active_connections, ws, sent>>

\* sessions.created_by_id references users.id without ON DELETE: a user who
\* created a session cannot be deleted.
fk_created_by(db_sessions, user_id) ==
    \A s \in DOMAIN db_sessions : db_sessions[s].created_by_id # user_id

\* The estimates left when a user is deleted: cascade "all, delete-orphan" of
\* User.estimates.
delete_user_estimates(db_estimates, user_id) ==
    BagRows(db_estimates, {e \in BagToSet(db_estimates) : e.user_id # user_id})

\* The rows of session_users and session_estimators of a deleted user go
\* with it (secondary relationships of User, ON DELETE CASCADE).
delete_user_memberships(db_sessions, user_id) ==
    [s \in DOMAIN db_sessions |->
        [db_sessions[s] EXCEPT !.participants = @ \ {user_id},
                               !.estimators = @ \ {user_id}]]

\* AdminManager.delete_user: db.delete(user), db.commit(); rolled back when
\* the commit fails.
DeleteUser(user_id) ==
    /\ user_id \in users
    /\ fk_created_by(sessions, user_id)
    /\ users' = users \ {user_id}
    /\ estimates' = delete_user_estimates(estimates, user_id)
    /\ sessions' = delete_user_memberships(sessions, user_id)
    /\ UNCHANGED <<issues, req, points, score, body, verdict, now, stamps, response,
                   active_connections, ws, sent>>

\* SpecLifecycle: the handlers of Spec, sessions with their creator, and the
\* deletions.  Users are looked up (`if user and ...`, the foreign key
\* estimates.user_id), so a deleted user neither joins nor votes.
NextLifecycle ==
    \/ \E u \in Users : CreateSessionBy(u)
    \/ \E s \in SessionIds : CreateIssue(s)
    \/ \E s \in SessionIds, u \in users : AddUser(s, u)
    \/ \E s \in SessionIds, u \in users : RemoveUser(s, u)
    \/ \E s \in SessionIds, u \in users : AddEstimator(s, u)
    \/ \E s \in SessionIds, u \in users : RemoveEstimator(s, u)
    \/ \E s \in SessionIds, i \in IssueIds, u \in users, in \in VoteInputs :
          CreateEstimate(s, i, u, in[1], in[2])
    \/ \E s \in SessionIds, u \in Users : DeleteSession(s, u)
    \/ \E s \in SessionIds, i \in IssueIds, u \in Users : RemoveIssueFromSession(s, i, u)
    \/ \E u \in Users : DeleteUser(u)

SpecLifecycle == Init /\ [][NextLifecycle]_vars

\* SpecQuorum: one session with two open issues; its membership changes
\* among the submissions on both.
QuorumVotes == {<<p, FALSE>> : p \in 1..MaxConcPoints} \cup {<<1, TRUE>>}

InitQuorum ==
    /\ sessions = [s \in {1} |-> [participants |-> {}, estimators |-> {}]]
    /\ issues = [i \in QuorumIssues |->
                    [session_id |-> 1, story_points |-> NULL,
                     story_points_before |-> NULL, is_estimated |-> FALSE]]
    /\ estimates = EmptyBag
    /\ NoRequests
    /\ NoScoring
    /\ NoValidation
    /\ NoClock
    /\ NoResponse
    /\ AllUsers
    /\ NoSockets

NextQuorum ==
    \/ \E s \in SessionIds, u \in ConcUsers : AddUser(s, u)
    \/ \E s \in SessionIds, u \in ConcUsers : RemoveUser(s, u)
    \/ \E s \in SessionIds, u \in ConcUsers : AddEstimator(s, u)
    \/ \E s \in SessionIds, u \in ConcUsers : RemoveEstimator(s, u)
    \/ \E s \in SessionIds, i \in QuorumIssues, u \in ConcUsers, in \in QuorumVotes :
          CreateEstimate(s, i, u, in[1], in[2])

SpecQuorum == InitQuorum /\ [][NextQuorum]_vars

\* SpecUnanimous: three participants vote denominations or jokers on an open
\* issue of a session with any estimators.
UnanimousVotes == {<<d, FALSE>> : d \in {1, 2, 4, 8, 16}} \cup {<<1, TRUE>>}

InitUnanimous ==
    /\ \E E \in SUBSET Users :
          sessions = [s \in {1} |-> [participants |-> Users, estimators |-> E]]
    /\ issues = [i \in {1} |-> [session_id |-> 1, story_points |-> NULL,
                                story_points_before |-> NULL, is_estimated |-> FALSE]]
    /\ estimates = EmptyBag
    /\ NoRequests
    /\ NoScoring
    /\ NoValidation
    /\ NoClock
    /\ NoResponse
    /\ AllUsers
    /\ NoSockets

NextUnanimous ==
    \E s \in SessionIds, i \in IssueIds, u \in Users, in \in UnanimousVotes :
        CreateEstimate(s, i, u, in[1], in[2])

SpecUnanimous == InitUnanimous /\ [][NextUnanimous]_vars

\* ------------------------------------------- who manages estimators
\* What the two estimator routes answer: 404 without the session, 403 for
\* another user than its creator, else 200 with the session.
estimator_route_status(db_sessions, session_id, current_user) ==
    IF session_id \notin DOMAIN db_sessions THEN 404
    ELSE IF db_sessions[session_id].created_by_id # current_user THEN 403
    ELSE 200

\* Mutant: any authenticated user may add an estimator.
AddEstimatorRequestByAnyone(current_user, session_id, user_id) ==
    /\ sessions' = add_estimator_to_session(sessions, session_id, user_id)
    /\ response' = [status_code |-> IF session_id \in DOMAIN sessions THEN 200 ELSE 404,
                    at |-> now, session_id |-> session_id]
    /\ UNCHANGED <<issues, estimates, req, points, score, body, verdict, now, stamps,
                   users, active_connections, ws, sent>>

\* POST /api/v1/sessions/{session_id}/estimators/{user_id}
AddEstimatorRequest(current_user, session_id, user_id) ==
    LET status_code == estimator_route_status(sessions, session_id, current_user)
    IN  /\ sessions' = IF status_code = 200
                       THEN add_estimator_to_session(sessions, session_id, user_id)
                       ELSE sessions
        /\ response' = [status_code |-> status_code, at |-> now, session_id |-> session_id]
        /\ UNCHANGED <<issues, estimates, req, points, score, body, verdict, now, stamps,
                       users, active_connections, ws, sent>>

\* DELETE /api/v1/sessions/{session_id}/estimators/{user_id}
RemoveEstimatorRequest(current_user, session_id, user_id) ==
    LET status_code == estimator_route_status(sessions, session_id, current_user)
    IN  /\ sessions' = IF status_code = 200
                       THEN remove_estimator_from_session(sessions, session_id, user_id)
                       ELSE sessions
        /\ response' = [status_code |-> status_code, at |-> now, session_id |-> session_id]
        /\ UNCHANGED <<issues, estimates, req, points, score, body, verdict, now, stamps,
                       users, active_connections, ws, sent>>

\* SpecOwner: a session of any creator and any members, with an open issue;
\* every user sends estimator requests for it and for a session that is not.
InitOwner ==
    /\ \E c \in Users, P \in SUBSET Users, E \in SUBSET Users :
          sessions = [s \in {1} |-> [participants |-> P, estimators |-> E,
                                     created_by_id |-> c]]
    /\ issues = [i \in {1} |-> [session_id |-> 1, story_points |-> NULL,
                                story_points_before |-> NULL, is_estimated |-> FALSE]]
    /\ estimates = EmptyBag
    /\ NoRequests
    /\ NoScoring
    /\ NoValidation
    /\ NoClock
    /\ NoResponse
    /\ AllUsers
    /\ NoSockets

NextOwner ==
    \/ \E c \in Users, s \in RequestedSessions, u \in Users : AddEstimatorRequest(c, s, u)
    \/ \E c \in Users, s \in RequestedSessions, u \in Users : RemoveEstimatorRequest(c, s, u)

SpecOwner == InitOwner /\ [][NextOwner]_vars

\* ------------------------------------------------- the web sockets
\* list.remove(x): the list without the first x in it.
RECURSIVE list_remove(_, _)
list_remove(l, x) ==
    IF l = <<>> THEN <<>>
    ELSE IF Head(l) = x THEN Tail(l)
    ELSE <<Head(l)>> \o list_remove(Tail(l), x)

\* The elements of a list.
list_elements(l) == {l[k] : k \in DOMAIN l}

\* ConnectionManager.connect, lines 26-28.
connect(connections, websocket, session_id) ==
    [k \in DOMAIN connections \cup {session_id} |->
        IF k = session_id
        THEN (IF session_id \in DOMAIN connections THEN connections[session_id] ELSE <<>>)
                 \o <<websocket>>
        ELSE connections[k]]

\* ConnectionManager.disconnect raises: KeyError of active_connections[session_id],
\* ValueError of list.remove (line 33).
disconnect_raises(connections, websocket, session_id) ==
    \/ session_id \notin DOMAIN connections
    \/ websocket \notin list_elements(connections[session_id])

\* ConnectionManager.disconnect, lines 33-35, when line 33 does not raise.
disconnect(connections, websocket, session_id) ==
    LET rest == list_remove(connections[session_id], websocket)
    IN  IF rest = <<>>
        THEN [k \in DOMAIN connections \ {session_id} |-> connections[k]]
        ELSE [connections EXCEPT ![session_id] = rest]

\* ConnectionManager.broadcast: the connections send_json is called on.
broadcast(connections, session_id) ==
    IF session_id \notin DOMAIN connections THEN {}
    ELSE list_elements(connections[session_id])

\* websocket_endpoint, line 80: the connection is accepted and registered.
Connect(websocket, session_id) ==
    /\ ws[websocket].pc = "idle"
    /\ active_connections' = connect(active_connections, websocket, session_id)
    /\ ws' = [ws EXCEPT ![websocket].pc = "connected",
                        ![websocket].session_id = session_id]
    /\ UNCHANGED <<sessions, issues, estimates, req, points, score, body, verdict, now,
                   stamps, response, users, sent>>

\* Lines 83-95: without the session the socket is closed and the endpoint
\* returns, else the confirmation is sent and the endpoint listens.
VerifySession(websocket) ==
    /\ ws[websocket].pc = "connected"
    /\ ws' = [ws EXCEPT ![websocket].pc =
                 IF ws[websocket].session_id \in DOMAIN sessions
                 THEN "listening" ELSE "finally"]
    /\ UNCHANGED <<sessions, issues, estimates, req, points, score, body, verdict, now,
                   stamps, response, users, active_connections, sent>>

\* Lines 103-108: a message of type "estimate" is broadcast to the session.
ReceiveEstimate(websocket) ==
    /\ ws[websocket].pc = "listening"
    /\ sent' = broadcast(active_connections, ws[websocket].session_id)
    /\ UNCHANGED <<sessions, issues, estimates, req, points, score, body, verdict, now,
                   stamps, response, users, active_connections, ws>>

\* Lines 100, 123-124: a message that is no JSON object raises, which is logged.
ReceiveError(websocket) ==
    /\ ws[websocket].pc = "listening"
    /\ ws' = [ws EXCEPT ![websocket].pc = "finally"]
    /\ UNCHANGED <<sessions, issues, estimates, req, points, score, body, verdict, now,
                   stamps, response, users, active_connections, sent>>

\* Lines 99, 114-121: receive_text raises WebSocketDisconnect; the socket is
\* taken off the list of its session and the others are notified.  With
\* nobody to notify nothing is awaited before line 128, where disconnect
\* does not find the socket.
ClientDisconnect(websocket) ==
    /\ ws[websocket].pc = "listening"
    /\ active_connections' =
          [active_connections EXCEPT ![ws[websocket].session_id] = list_remove(@, websocket)]
    /\ sent' = broadcast(active_connections', ws[websocket].session_id)
    /\ ws' = IF sent' = {}
             THEN [ws EXCEPT ![websocket].pc = "ended", ![websocket].raised = TRUE]
             ELSE [ws EXCEPT ![websocket].pc = "finally"]
    /\ UNCHANGED <<sessions, issues, estimates, req, points, score, body, verdict, now,
                   stamps, response, users>>

\* Lines 126-128: db.close() and manager.disconnect; what disconnect raises
\* leaves the endpoint.
Finally(websocket) ==
    /\ ws[websocket].pc = "finally"
    /\ IF disconnect_raises(active_connections, websocket, ws[websocket].session_id)
       THEN /\ ws' = [ws EXCEPT ![websocket].pc = "ended", ![websocket].raised = TRUE]
            /\ UNCHANGED active_connections
       ELSE /\ ws' = [ws EXCEPT ![websocket].pc = "ended"]
            /\ active_connections' =
                  disconnect(active_connections, websocket, ws[websocket].session_id)
    /\ UNCHANGED <<sessions, issues, estimates, req, points, score, body, verdict, now,
                   stamps, response, users, sent>>

\* SpecWs: clients open sockets on the one session and on a session id
\* without session, send messages and leave.
InitWs ==
    /\ sessions = [s \in {1} |-> [participants |-> {}, estimators |-> {}]]
    /\ issues = <<>>
    /\ estimates = EmptyBag
    /\ NoRequests
    /\ NoScoring
    /\ NoValidation
    /\ NoClock
    /\ NoResponse
    /\ AllUsers
    /\ NoSockets

NextWs ==
    \/ \E w \in Sockets, s \in RequestedSessions : Connect(w, s)
    \/ \E w \in Sockets :
          \/ VerifySession(w)
          \/ ReceiveEstimate(w)
          \/ ReceiveError(w)
          \/ ClientDisconnect(w)
          \/ Finally(w)

SpecWs == InitWs /\ [][NextWs]_vars

\* SpecRead: the summary requested once, at any moment among the estimate
\* submissions of the session.
NextRead ==
    \/ NextSummary
    \/ \E s \in SessionIds, i \in IssueIds, u \in Users, in \in VoteInputs :
          CreateEstimate(s, i, u, in[1], in[2])

SpecRead == InitSummary /\ [][NextRead]_vars

\* ================================================================ claims
\* What the claims read off the tables, stated without the service's code.
VotesOn(db_estimates, i) ==
    BagRows(db_estimates, {e \in BagToSet(db_estimates) : e.issue_id = i})

VoteCount(db_estimates, i) == BagCardinality(VotesOn(db_estimates, i))

Voters(db_estimates, i) == {e.user_id : e \in BagToSet(VotesOn(db_estimates, i))}

JokerVotes(db_estimates, i) == {e \in BagToSet(VotesOn(db_estimates, i)) : e.is_joker}

NumericPoints(db_estimates, i) ==
    {e.story_points : e \in {x \in BagToSet(VotesOn(db_estimates, i)) : ~x.is_joker}}

Spread(S) == (CHOOSE x \in S : \A y \in S : y <= x) - (CHOOSE x \in S : \A y \in S : x <= y)

RequiredVoters(session) ==
    IF session.estimators # {} THEN session.estimators ELSE session.participants

QuorumSize(session) == Cardinality(RequiredVoters(session))

SessionOf(db_sessions, db_issues, i) == db_sessions[db_issues[i].session_id]

Denominations == {1, 2, 4, 8, 16}

\* A step of the vote-submission handler on issue i.
SubmissionOn(i) ==
    \E s \in SessionIds, u \in Users, in \in VoteInputs : CreateEstimate(s, i, u, in[1], in[2])

\* C1 (one-shot latch): once an issue is estimated, no step of the service
\* sets is_estimated back or changes story_points, whatever votes follow.
C1_OneShotLatch ==
    [][\A i \in DOMAIN issues :
          (issues[i].is_estimated /\ i \in DOMAIN issues')
              => /\ issues'[i].is_estimated
                 /\ issues'[i].story_points = issues[i].story_points]_vars

\* An estimated issue whose present votes would reach consensus on another value.
C1_LatchWitness ==
    \E i \in DOMAIN issues :
        /\ issues[i].is_estimated
        /\ QuorumSize(SessionOf(sessions, issues, i)) > 0
        /\ VoteCount(estimates, i) >= QuorumSize(SessionOf(sessions, issues, i))
        /\ NumericPoints(estimates, i) # {}
        /\ Spread(NumericPoints(estimates, i)) = 0
        /\ NumericPoints(estimates, i) \subseteq Denominations
        /\ issues[i].story_points \notin NumericPoints(estimates, i)

\* C2 (concurrent submission safety): a request writes the finalized issue
\* only if no other request has finalized it since it was read, so that of
\* several concurrent submissions exactly one performs the finalizing write.
C2_SingleFinalization ==
    [][\A r \in Requests :
          ApplyEstimate(r) => ~issues[req[r].issue_id].is_estimated]_vars

\* The votes of user u on issue i.
VotesOfPair(db_estimates, i, u) ==
    BagRows(db_estimates, {e \in BagToSet(db_estimates) : e.issue_id = i /\ e.user_id = u})

C4_JokerConstraint ==
    verdict # "none" =>
        (verdict = "accepted" <=>
            \/ body.is_joker /\ body.story_points = 0
            \/ ~body.is_joker /\ body.story_points >= 1)

\* C5 (quorum gating): an open issue with fewer votes than the quorum size
\* after a step is still open after it, whatever the votes are.
C5_QuorumGating ==
    [][\A i \in DOMAIN issues :
          (/\ ~issues[i].is_estimated
           /\ i \in DOMAIN issues'
           /\ VoteCount(estimates', i) < QuorumSize(SessionOf(sessions', issues', i)))
              => ~issues'[i].is_estimated]_vars

\* Three required voters, two numeric votes within 2 points, the issue open.
C5_TwoOfThreeWitness ==
    \E i \in DOMAIN issues :
        /\ ~issues[i].is_estimated
        /\ QuorumSize(SessionOf(sessions, issues, i)) = 3
        /\ VoteCount(estimates, i) = 2
        /\ JokerVotes(estimates, i) = {}
        /\ Spread(NumericPoints(estimates, i)) <= 2

\* C6 (consensus rule): a submission on an open issue that leaves quorum size
\* > 0, at least that many votes and a non-joker vote finalizes the issue iff
\* the non-joker points span at most 2; joker points do not count.
C6_ConsensusRule ==
    [][\A i \in DOMAIN issues :
          (/\ ~issues[i].is_estimated
           /\ QuorumSize(SessionOf(sessions', issues', i)) > 0
           /\ VoteCount(estimates', i) >= QuorumSize(SessionOf(sessions', issues', i))
           /\ NumericPoints(estimates', i) # {}
           /\ SubmissionOn(i))
              => (issues'[i].is_estimated <=> Spread(NumericPoints(estimates', i)) <= 2)]_vars

\* An issue finalized on votes whose span is above 2 only if the joker's
\* points are counted.
C6_JokerIgnoredWitness ==
    \E i \in DOMAIN issues :
        /\ issues[i].is_estimated
        /\ VoteCount(estimates, i) = QuorumSize(SessionOf(sessions, issues, i))
        /\ NumericPoints(estimates, i) # {}
        /\ issues[i].story_points = 4
        /\ \E j \in JokerVotes(estimates, i) :
              Spread(NumericPoints(estimates, i) \cup {j.story_points}) > 2

\* C7 (final value): on consensus the score is the denomination nearest to the
\* average of the points, the smaller one on a tie.
C7_FinalValue ==
    (score.done /\ score.consensus) =>
        LET total == SeqSum(points)
            n == Len(points)
            d == score.final_score
        IN  /\ d \in Denominations
            /\ \A e \in Denominations :
                  \/ AbsDiff(d * n, total) < AbsDiff(e * n, total)
                  \/ AbsDiff(d * n, total) = AbsDiff(e * n, total) /\ d <= e
            /\ points \in {<<5, 7>>, <<7, 5>>, <<6, 6>>} => d = 4
            /\ points \in {<<3, 3>>, <<2, 4>>, <<3>>} => d = 2
            /\ points \in {<<1, 2>>, <<2, 1>>} => d = 1
            /\ points = <<4, 4, 2>> => d = 4

\* The average 6.0, between 4 and 8, was scored.
C7_TieWitness ==
    /\ score.done
    /\ score.consensus
    /\ points = <<5, 7>>
    /\ score.final_score = 4

\* C8 (quorum resolution): a submission on an open issue with a non-joker
\* vote and span <= 2 finalizes it iff the votes number at least the quorum
\* size, which is |estimators| if there are estimators, else |participants|,
\* and is above 0; with quorum size 0 no step finalizes the issue.
C8_QuorumResolution ==
    [][\A i \in DOMAIN issues :
          LET size == IF sessions'[issues'[i].session_id].estimators # {}
                      THEN Cardinality(sessions'[issues'[i].session_id].estimators)
                      ELSE IF sessions'[issues'[i].session_id].participants # {}
                      THEN Cardinality(sessions'[issues'[i].session_id].participants)
                      ELSE 0
          IN  /\ (/\ ~issues[i].is_estimated
                  /\ NumericPoints(estimates', i) # {}
                  /\ Spread(NumericPoints(estimates', i)) <= 2
                  /\ SubmissionOn(i))
                     => (issues'[i].is_estimated
                            <=> (size > 0 /\ VoteCount(estimates', i) >= size))
              /\ (~issues[i].is_estimated /\ size = 0) => ~issues'[i].is_estimated]_vars

\* Finalized on the estimators' quorum while the participants are more.
C8_EstimatorsFirstWitness ==
    \E i \in DOMAIN issues :
        /\ issues[i].is_estimated
        /\ SessionOf(sessions, issues, i).estimators # {}
        /\ VoteCount(estimates, i) = Cardinality(SessionOf(sessions, issues, i).estimators)
        /\ VoteCount(estimates, i) < Cardinality(SessionOf(sessions, issues, i).participants)

\* C9 (required voters): a submission finalizes an issue only when every
\* required voter (estimators, else participants) has a vote on it.
C9_AllRequiredVoted ==
    [][\A i \in DOMAIN issues :
          (~issues[i].is_estimated /\ issues'[i].is_estimated /\ SubmissionOn(i))
              => RequiredVoters(SessionOf(sessions', issues', i))
                    \subseteq Voters(estimates', i)]_vars

\* C10 (all-joker evaluation): an open issue all of whose votes are jokers
\* after a step is still open, with story_points unset.
C10_AllJoker ==
    [][\A i \in DOMAIN issues :
          (/\ ~issues[i].is_estimated
           /\ i \in DOMAIN issues'
           /\ VoteCount(estimates', i) >= 1
           /\ NumericPoints(estimates', i) = {})
              => /\ ~issues'[i].is_estimated
                 /\ issues'[i].story_points = NULL]_vars

\* Every required voter has played the joker: the quorum is met, the issue open.
C10_AllJokerWitness ==
    \E i \in DOMAIN issues :
        /\ ~issues[i].is_estimated
        /\ issues[i].story_points = NULL
        /\ QuorumSize(SessionOf(sessions, issues, i)) >= 2
        /\ VoteCount(estimates, i) >= QuorumSize(SessionOf(sessions, issues, i))
        /\ NumericPoints(estimates, i) = {}

\* C11 (finalization effect): the write that finalizes an issue sets
\* story_points_before to the story_points the issue had just before, sets
\* story_points to the final value and sets is_estimated, in one update.
C11_FinalizationEffect ==
    [][\A r \in Requests :
          ApplyEstimate(r) =>
              /\ issues'[req[r].issue_id].story_points_before
                    = issues[req[r].issue_id].story_points
              /\ issues'[req[r].issue_id].story_points = req[r].final_score
              /\ issues'[req[r].issue_id].is_estimated]_vars

\* C12 (no partial persistence): a submission that fails after its vote
\* write leaves no trace of that write; here, a submission that inserted its
\* vote and then failed has left no vote of its pair.  (While the request is
\* in that state a vote of the pair can only stem from its own insert.)
C12_NoPartialPersistence ==
    \A r \in Requests :
        (req[r].pc = "error" /\ ~req[r].existing)
            => VotesOfPair(estimates, req[r].issue_id, req[r].user_id) = EmptyBag

\* C17 (missing issue): a submission that names an issue that does not exist
\* ends in a not-found error and stores no vote.
C17_MissingIssue ==
    \A r \in Requests :
        (req[r].issue_id \notin DOMAIN issues /\ req[r].pc \notin {"idle", "write"})
            => /\ req[r].pc = "not_found"
               /\ VotesOn(estimates, req[r].issue_id) = EmptyBag

\* A step of the stamped vote-submission handler for the pair (i, u) with
\* points p and joker flag j.
StampedSubmission(i, u, p, j) ==
    \E s \in SessionIds : CreateEstimateStamped(s, i, u, p, j)

\* C13 (upsert idempotence): submitting for a pair the vote it already has
\* leaves the pair with that one vote, and, the clock having moved on since
\* the vote was last written, with a later updated_at.
C13_UpsertIdempotence ==
    [][\A i \in IssueIds, u \in UpsertUsers, in \in VoteInputs :
          (/\ EstimateRow(i, u, in[1], in[2]) \in BagToSet(estimates)
           /\ now > stamps[<<i, u>>].updated_at
           /\ StampedSubmission(i, u, in[1], in[2]))
              => /\ VotesOfPair(estimates', i, u)
                      = SetToBag({EstimateRow(i, u, in[1], in[2])})
                 /\ stamps'[<<i, u>>].updated_at > stamps[<<i, u>>].updated_at
                 /\ response'.updated_at = stamps'[<<i, u>>].updated_at]_vars

\* C14 (upsert result and frame): a submission leaves its pair with exactly
\* the submitted vote; an existing vote keeps created_at and gets updated_at
\* of the time of the submission, a new vote gets created_at = updated_at;
\* the votes and timestamps of every other pair stay as they are.
C14_UpsertFrame ==
    [][\A i \in IssueIds, u \in UpsertUsers, in \in VoteInputs :
          StampedSubmission(i, u, in[1], in[2])
              => /\ VotesOfPair(estimates', i, u)
                      = SetToBag({EstimateRow(i, u, in[1], in[2])})
                 /\ response'.status_code = 200
                 /\ <<response'.issue_id, response'.user_id>> = <<i, u>>
                 /\ <<response'.story_points, response'.is_joker>> = in
                 /\ IF <<i, u>> \in DOMAIN stamps
                    THEN /\ stamps'[<<i, u>>].created_at = stamps[<<i, u>>].created_at
                         /\ stamps'[<<i, u>>].updated_at >= now
                    ELSE stamps'[<<i, u>>].created_at = stamps'[<<i, u>>].updated_at
                 /\ \A k \in IssueIds, v \in UpsertUsers :
                       <<k, v>> # <<i, u>>
                          => /\ VotesOfPair(estimates', k, v) = VotesOfPair(estimates, k, v)
                             /\ (<<k, v>> \in DOMAIN stamps
                                    => stamps'[<<k, v>>] = stamps[<<k, v>>])]_vars

\* C15 (evaluation on every write): a submission on an open issue that leaves
\* quorum size > 0, at least that many votes, a non-joker vote and a span of
\* at most 2 among the non-joker points leaves the issue finalized.
C15_EvaluationOnWrite ==
    [][\A i \in DOMAIN issues :
          (/\ ~issues[i].is_estimated
           /\ QuorumSize(SessionOf(sessions', issues', i)) > 0
           /\ VoteCount(estimates', i) >= QuorumSize(SessionOf(sessions', issues', i))
           /\ NumericPoints(estimates', i) # {}
           /\ Spread(NumericPoints(estimates', i)) <= 2
           /\ SubmissionOn(i))
              => /\ issues'[i].is_estimated
                 /\ issues'[i].story_points # NULL]_vars

\* An issue finalized on the participants' quorum of two, one vote a joker.
C15_FinalizedAtReturnWitness ==
    \E i \in DOMAIN issues :
        /\ issues[i].is_estimated
        /\ SessionOf(sessions, issues, i).estimators = {}
        /\ QuorumSize(SessionOf(sessions, issues, i)) = 2
        /\ VoteCount(estimates, i) = 2
        /\ Cardinality(JokerVotes(estimates, i)) = 1

\* C16 (finalized value domain): an estimated issue has story_points in
\* {1, 2, 4, 8, 16}, whatever the stored votes are, and story_points changes
\* only in the step of a submission that finalizes the issue.
C16_FinalizedValueDomain ==
    /\ [](\A i \in DOMAIN issues :
            issues[i].is_estimated => issues[i].story_points \in Denominations)
    /\ [][\A i \in DOMAIN issues :
            (i \in DOMAIN issues' /\ issues'[i].story_points # issues[i].story_points)
                => /\ ~issues[i].is_estimated
                   /\ issues'[i].is_estimated
                   /\ SubmissionOn(i)]_vars

\* An issue finalized to 2 with a vote of 3 points, which is no denomination.
C16_OffDomainVoteWitness ==
    \E i \in DOMAIN issues :
        /\ issues[i].is_estimated
        /\ issues[i].story_points = 2
        /\ 3 \in NumericPoints(estimates, i)
        /\ Spread(NumericPoints(estimates, i)) <= 2
        /\ JokerVotes(estimates, i) = {}

\* The non-joker votes on issue i (one row per user), and the sum of the
\* points of a set of rows.
NumericVotes(db_estimates, i) ==
    {e \in BagToSet(VotesOn(db_estimates, i)) : ~e.is_joker}

RECURSIVE PointsSum(_)
PointsSum(S) ==
    IF S = {} THEN 0
    ELSE LET e == CHOOSE x \in S : TRUE IN e.story_points + PointsSum(S \ {e})

\* C18 (summary aggregates): the summary of an issue with a non-joker vote
\* counts all votes, the non-joker votes and the joker votes, takes minimum,
\* maximum and average over the non-joker points, and has is_consensus iff
\* maximum - minimum <= 2, whatever the quorum and is_estimated are.
C18_SummaryAggregates ==
    (response.status_code = 200 /\ NumericVotes(estimates, response.issue_id) # {}) =>
        LET i == response.issue_id
            sm == response.summary
            numeric == NumericVotes(estimates, i)
            pts == {e.story_points : e \in numeric}
        IN  /\ sm.total_estimates = VoteCount(estimates, i)
            /\ sm.valid_estimates = Cardinality(numeric)
            /\ sm.joker_count = Cardinality(JokerVotes(estimates, i))
            /\ sm.total_estimates = sm.valid_estimates + sm.joker_count
            /\ sm.min_points \in pts /\ \A x \in pts : sm.min_points <= x
            /\ sm.max_points \in pts /\ \A x \in pts : x <= sm.max_points
            /\ sm.avg_points.num * Cardinality(numeric) = PointsSum(numeric) * sm.avg_points.den
            /\ sm.is_consensus <=> (sm.max_points - sm.min_points <= 2)

\* A summary with consensus over two numeric votes beside a joker, for an
\* open issue whose quorum of three is met.
C18_ConsensusOpenIssueWitness ==
    /\ response.status_code = 200
    /\ response.summary.is_consensus
    /\ response.summary.valid_estimates = 2
    /\ response.summary.joker_count = 1
    /\ response.summary.min_points < response.summary.max_points
    /\ ~issues[response.issue_id].is_estimated
    /\ QuorumSize(SessionOf(sessions, issues, response.issue_id)) = 3

\* C19 (summary, all jokers): the summary of an issue all of whose votes are
\* jokers has valid_estimates 0, min_points 0, max_points 0, avg_points 0.0,
\* is_consensus false and joker_count = total_estimates = the number of votes.
C19_SummaryAllJokers ==
    (/\ response.status_code = 200
     /\ VoteCount(estimates, response.issue_id) >= 1
     /\ NumericVotes(estimates, response.issue_id) = {}) =>
        /\ response.summary.valid_estimates = 0
        /\ response.summary.min_points = 0
        /\ response.summary.max_points = 0
        /\ response.summary.avg_points.num = 0
        /\ ~response.summary.is_consensus
        /\ response.summary.joker_count = VoteCount(estimates, response.issue_id)
        /\ response.summary.total_estimates = VoteCount(estimates, response.issue_id)

\* The summary of three joker votes.
C19_ThreeJokersWitness ==
    /\ response.status_code = 200
    /\ response.summary.joker_count = 3
    /\ response.summary.valid_estimates = 0
    /\ VoteCount(estimates, response.issue_id) = 3

\* C20 (summary without votes): get_estimate_summary returns None exactly for
\* an issue with no vote, and the route answers 404 exactly then.
C20_SummaryNotFound ==
    /\ \A i \in RequestedIssues :
          (get_estimate_summary(estimates, i) = None) <=> (VoteCount(estimates, i) = 0)
    /\ response.status_code # 0 =>
          /\ response.status_code \in {200, 404}
          /\ response.status_code = 404 <=> VoteCount(estimates, response.issue_id) = 0

\* 404 for an issue that exists and has no vote, while another request
\* would find no issue at all.
C20_NoVotesWitness ==
    /\ response.status_code = 404
    /\ response.issue_id \in DOMAIN issues
    /\ estimates = EmptyBag


\* C21 (summary is read-only): a summary request changes no vote, no field
\* of an issue and no session, so it never finalizes an issue, also when it
\* reports is_consensus for an open issue, wherever it falls among the vote
\* submissions.
C21_SummaryReadOnly ==
    [][\A i \in RequestedIssues :
          GetEstimateSummary(i) => UNCHANGED <<sessions, issues, estimates>>]_vars

\* A summary that reported consensus for an issue that is still open although
\* every required voter has voted, and a vote submitted after it.
C21_ConsensusNotFinalizedWitness ==
    /\ response.status_code = 200
    /\ response.summary.is_consensus
    /\ response.issue_id \in DOMAIN issues
    /\ ~issues[response.issue_id].is_estimated
    /\ response.summary.total_estimates >=
          QuorumSize(SessionOf(sessions, issues, response.issue_id))
    /\ estimates_dict(issue_estimates(estimates, response.issue_id))
          # response.summary.estimates

\* C22 (stored-vote invariant): every stored joker vote has story_points 0
\* and every stored non-joker vote has story_points >= 1, also after a vote
\* was overwritten from joker to numeric or back.
C22_StoredVoteInvariant ==
    \A e \in BagToSet(estimates) :
        /\ e.is_joker => e.story_points = 0
        /\ ~e.is_joker => e.story_points >= 1

\* The users with a vote on issue i.
HasVote(db_estimates, i, u) ==
    \E e \in BagToSet(db_estimates) : e.issue_id = i /\ e.user_id = u

\* C23 (vote lifecycle), as the spec states it: no vote references an issue
\* that does not exist, and a vote disappears only in a step that deletes
\* its issue (alone or with its session).
C23_VoteLifecycle ==
    /\ [](\A e \in BagToSet(estimates) : e.issue_id \in DOMAIN issues)
    /\ [][\A i \in IssueIds, u \in Users :
             (HasVote(estimates, i, u) /\ ~HasVote(estimates', i, u)) =>
                 (i \in DOMAIN issues /\ i \notin DOMAIN issues')]_vars

\* C23 (vote lifecycle), as the code has it: no vote references an issue or
\* a user that does not exist, and a vote disappears only in a step that
\* deletes its issue (alone or with its session) or its user.
C23_VoteLifecycleWithUsers ==
    /\ [](\A e \in BagToSet(estimates) : e.issue_id \in DOMAIN issues /\ e.user_id \in users)
    /\ [][\A i \in IssueIds, u \in Users :
             (HasVote(estimates, i, u) /\ ~HasVote(estimates', i, u)) =>
                 \/ i \in DOMAIN issues /\ i \notin DOMAIN issues'
                 \/ u \in users /\ u \notin users']_vars

\* A user deleted with the votes they cast: an issue that was finalized by
\* votes is left, in its session, without any vote.
C23_VotesGoneWithUserWitness ==
    /\ users # Users
    /\ \E i \in DOMAIN issues :
          /\ issues[i].is_estimated
          /\ issues[i].session_id \in DOMAIN sessions
          /\ VoteCount(estimates, i) = 0

\* A step of one of the four membership handlers.
MembershipChange ==
    \E s \in SessionIds, u \in Users :
        \/ AddUser(s, u)
        \/ RemoveUser(s, u)
        \/ AddEstimator(s, u)
        \/ RemoveEstimator(s, u)

\* C24 (membership changes do not evaluate): adding or removing an estimator
\* or a participant changes no issue and no vote, also when the quorum
\* shrinks to the votes already cast; an issue becomes estimated only in a
\* step of the vote submission on it.
C24_MembershipDoesNotEvaluate ==
    [][/\ MembershipChange => UNCHANGED <<issues, estimates>>
       /\ \A i \in DOMAIN issues :
             (~issues[i].is_estimated /\ issues'[i].is_estimated) => SubmissionOn(i)]_vars

\* An open issue whose required voters have all voted, with numeric votes
\* that agree: the membership was changed to the voters after the votes.
C24_QuorumShrunkWitness ==
    \E i \in DOMAIN issues :
        /\ ~issues[i].is_estimated
        /\ QuorumSize(SessionOf(sessions, issues, i)) >= 1
        /\ RequiredVoters(SessionOf(sessions, issues, i)) = Voters(estimates, i)
        /\ NumericPoints(estimates, i) # {}
        /\ Spread(NumericPoints(estimates, i)) <= 2

\* C25 (live quorum): a submission on an open issue finalizes it iff the
\* votes on the issue number at least the estimators the session has at that
\* moment, or its participants when it has no estimator then, the number is
\* above 0 and the non-joker votes agree; every issue of the session is
\* judged by the same sets.
C25_LiveQuorum ==
    [][\A i \in DOMAIN issues :
          LET session == sessions[issues[i].session_id]
              required == IF session.estimators # {}
                          THEN session.estimators
                          ELSE session.participants
          IN  (~issues[i].is_estimated /\ SubmissionOn(i)) =>
                 (issues'[i].is_estimated <=>
                     /\ Cardinality(required) >= 1
                     /\ VoteCount(estimates', i) >= Cardinality(required)
                     /\ NumericPoints(estimates', i) # {}
                     /\ Spread(NumericPoints(estimates', i)) <= 2)]_vars

\* Two issues of one session: one was finalized by a single vote, the other
\* is open with a single numeric vote now that the session has two estimators.
C25_EnlargedQuorumWitness ==
    /\ Cardinality(DOMAIN issues) = 2
    /\ \E i, k \in DOMAIN issues :
          /\ issues[i].session_id = issues[k].session_id
          /\ issues[i].is_estimated /\ VoteCount(estimates, i) = 1
          /\ ~issues[k].is_estimated /\ VoteCount(estimates, k) = 1
          /\ NumericPoints(estimates, k) # {}
          /\ Cardinality(SessionOf(sessions, issues, k).estimators) = 2

\* C26 (flag and value agree): in every state an issue is estimated iff its
\* story_points is not null.
C26_FlagAndValueAgree ==
    \A i \in DOMAIN issues : issues[i].is_estimated <=> issues[i].story_points # NULL

\* An estimated issue while a second request is about to apply its own score.
C26_EstimatedWitness ==
    /\ \E i \in DOMAIN issues : issues[i].is_estimated /\ issues[i].story_points \in Denominations
    /\ \E r \in Requests : req[r].pc = "apply"

\* C27 (unanimity): an issue finalized while all its non-joker votes carry
\* the same denomination d gets story_points d, whatever the number of joker
\* votes beside them.
C27_Unanimity ==
    [][\A i \in DOMAIN issues, d \in Denominations :
          (/\ ~issues[i].is_estimated
           /\ issues'[i].is_estimated
           /\ NumericPoints(estimates', i) = {d}) => issues'[i].story_points = d]_vars

\* Finalized to 16 by one vote of 16 beside two jokers.
C27_SixteenBesideJokersWitness ==
    \E i \in DOMAIN issues :
        /\ issues[i].is_estimated
        /\ issues[i].story_points = 16
        /\ NumericPoints(estimates, i) = {16}
        /\ Cardinality(JokerVotes(estimates, i)) = 2

\* C28 (membership sets stay sets): participants and estimators of a session
\* are sets of users.  Adding a user puts exactly that user into the set named
\* and removing takes exactly that user out of it, which leaves the set as it
\* is when the user is already there or not there; the other set of the
\* session is never touched, so an estimator need not be a participant.
C28_MembershipSets ==
    [][\A s \in DOMAIN sessions, u \in Users :
          /\ AddUser(s, u) =>
                /\ sessions'[s].participants = sessions[s].participants \cup {u}
                /\ sessions'[s].estimators = sessions[s].estimators
          /\ RemoveUser(s, u) =>
                /\ sessions'[s].participants = sessions[s].participants \ {u}
                /\ sessions'[s].estimators = sessions[s].estimators
          /\ AddEstimator(s, u) =>
                /\ sessions'[s].estimators = sessions[s].estimators \cup {u}
                /\ sessions'[s].participants = sessions[s].participants
          /\ RemoveEstimator(s, u) =>
                /\ sessions'[s].estimators = sessions[s].estimators \ {u}
                /\ sessions'[s].participants = sessions[s].participants]_vars

\* A session with an estimator who is no participant beside a participant
\* who is no estimator.
C28_EstimatorNotParticipantWitness ==
    \E s \in DOMAIN sessions :
        /\ sessions[s].estimators \ sessions[s].participants # {}
        /\ sessions[s].participants \ sessions[s].estimators # {}

\* C29 (only the creator manages estimators): a request to add or remove an
\* estimator of a session that does not exist is answered 404; one by another
\* user than the creator of the session is answered 403 and leaves the
\* estimators, and with them the quorum of the issues of the session, as
\* they were; only the creator's request is answered 200.
C29_OnlyCreatorManagesEstimators ==
    [][\A c \in Users, s \in RequestedSessions, u \in Users :
          (AddEstimatorRequest(c, s, u) \/ RemoveEstimatorRequest(c, s, u)) =>
              /\ s \notin DOMAIN sessions =>
                    response'.status_code = 404 /\ sessions' = sessions
              /\ (s \in DOMAIN sessions /\ sessions[s].created_by_id # c) =>
                    /\ response'.status_code = 403
                    /\ sessions'[s].estimators = sessions[s].estimators
                    /\ \A i \in DOMAIN issues :
                          QuorumSize(SessionOf(sessions', issues', i))
                              = QuorumSize(SessionOf(sessions, issues, i))
              /\ (s \in DOMAIN sessions /\ sessions[s].created_by_id = c) =>
                    response'.status_code = 200]_vars

\* 403 was answered for a session whose creator is no estimator of it, while
\* each of the two other users is one.
C29_ForbiddenWitness ==
    /\ response.status_code = 403
    /\ response.session_id \in DOMAIN sessions
    /\ sessions[response.session_id].estimators
          = Users \ {sessions[response.session_id].created_by_id}

\* C30 (web socket registry cleanup): once websocket_endpoint has ended for
\* an accepted socket, its cleanup has raised no error, the socket is on no
\* list of active_connections and the session id it named does not map to an
\* empty list.
C30_RegistryCleanup ==
    \A w \in Sockets :
        ws[w].pc = "ended" =>
            /\ ~ws[w].raised
            /\ \A s \in DOMAIN active_connections :
                  w \notin list_elements(active_connections[s])
            /\ ws[w].session_id \in DOMAIN active_connections =>
                  active_connections[ws[w].session_id] # <<>>

=============================================================================
